---- MODULE Spec2Model ----
(***************************************************************************)
(* ZebraCrossing: the fixed-window rate-limiting middleware of             *)
(* src/main.ts, over a key-value store (Deno KV).                          *)
(*                                                                         *)
(* Every request runs the async handler of main.ts:32-85.  The handler     *)
(* suspends at its awaits; the code between two awaits runs without        *)
(* interruption.  The actions are: the arrival of a request up to the      *)
(* await of kv.get (OpenKv), the store's read (KvGet), the resumption up   *)
(* to the 429 response or the await of kv.set (AfterGet), and the store's  *)
(* write followed by the rest of the handler, which touches only the       *)
(* request's own response (KvSet); each store operation may instead        *)
(* reject.  Requests are numbered in arrival order.  The clock is seen     *)
(* only where the handler reads it (Date.now(), main.ts:46): clock is the  *)
(* latest value read, and every read returns that value or a later one.    *)
(* soloKv and soloRecord are auxiliary: they replay the calls of each      *)
(* client identity against a store of its own.                             *)
(* expireIn and overlapped are auxiliary too: the expireIn option of the   *)
(* last write of each key, and the requests that were in flight together   *)
(* with another request of their client.  A number that is missing or not  *)
(* a number (undefined, NaN) is the value NaN.                             *)
(***************************************************************************)
EXTENDS Integers, Sequences, FiniteSets

(* ---- bounds ---- *)
NReq == 3          \* requests that arrive in a behaviour
NSeq == 4          \* calls of a behaviour that follows a client past a reset
NBurst == 5        \* requests that arrive in a burst of one client
MaxInFlight == 2   \* requests that may be in flight at the same time
MaxFailures == 1   \* store operations that may fail in a behaviour
MaxTime == 2       \* Date.now() returns 0..MaxTime
MaxWindow == 1     \* windowMs ranges over 1..MaxWindow
MaxLimit == 2      \* maxRequests ranges over 1..MaxLimit

Ips == {"a"}
Undefined == "undefined"      \* the JavaScript value undefined
Null == [null |-> TRUE]       \* record.value of a key with no entry
HeaderVals == Ips \cup {Undefined, ""}
RemoteVals == Ips \cup {Undefined}

VARIABLES
  windowMs, maxRequests,  \* options captured by the closure, main.ts:30
  clock,                  \* the latest value Date.now() returned
  kv,                     \* Deno KV: key -> {hits, expiresAt} or Null
  pc,                     \* per request: the await the handler is parked at
  clientIp,               \* main.ts:40
  record,                 \* record.value, main.ts:45
  currentTime,            \* main.ts:46
  hits, expiresAt,        \* main.ts:49-64
  status,                 \* response status set by the middleware (0: none)
  headers,                \* the X-RateLimit-* response headers
  trace,                  \* per request: the effects it performed, in order
  err,                    \* per request: the await that rejected ("" if none)
  soloKv, soloRecord,     \* auxiliary: a private store per client identity
  expireIn,               \* Deno KV: key -> the expireIn option of its entry
  overlapped              \* auxiliary: the requests that were in flight
                          \* together with another request of their client

config == <<windowMs, maxRequests>>
locals == <<clientIp, record, currentTime, hits, expiresAt>>
response == <<status, headers>>
solo == <<soloKv, soloRecord>>
vars == <<windowMs, maxRequests, clock, kv, pc, clientIp, record, currentTime,
          hits, expiresAt, status, headers, trace, err, soloKv, soloRecord,
          expireIn, overlapped>>

\* the requests of a behaviour, numbered in the order of their arrival
Reqs == DOMAIN pc

(* ---- pure helpers ---- *)

\* JavaScript truthiness of a header value / address
Truthy(v) == v # Undefined /\ v # ""

\* a || b
Or(a, b) == IF Truthy(a) THEN a ELSE b

\* main.ts:40
ClientIpOf(realIp, forwardedFor, remoteAddress) ==
  Or(Or(realIp, forwardedFor), remoteAddress)

ClientIps == {ClientIpOf(x, f, a) : x \in HeaderVals, f \in HeaderVals, a \in RemoteVals}

\* variant: the client address left out of the key
KeyShared(ip) == << "rate-limit:" >>

\* main.ts:42: a one-element key array holding the template string
Key(ip) == << "rate-limit:" \o ip >>

KvKeys == {Key(ip) : ip \in ClientIps}

\* A value that is not a number: NaN, and undefined where a number is
\* expected (undefined++ is NaN, a comparison with undefined is false, a Date
\* of undefined is invalid).  Counts and times are never negative, so the
\* value is encoded below them.
NaN == -1

\* rec.f: a field the value does not have reads as undefined
Field(rec, f) == IF f \in DOMAIN rec THEN rec[f] ELSE NaN

\* a > b: false when either side is not a number
Gt(a, b) == a # NaN /\ b # NaN /\ a > b

\* a - b
Minus(a, b) == IF a = NaN \/ b = NaN THEN NaN ELSE a - b

\* new Date(ms) is a valid date; toISOString throws a RangeError otherwise
ValidDate(ms) == ms # NaN

RECURSIVE Digits(_)
Digits(n) == IF n < 10 THEN << n >> ELSE Append(Digits(n \div 10), n % 10)

\* Number.prototype.toString for integers: sign and decimal digits
toString(n) ==
  IF n = NaN THEN << "N", "a", "N" >>
  ELSE IF n < 0 THEN << "-" >> \o Digits(-n) ELSE Digits(n)

\* new Date(ms).toISOString(): the UTC fields of the timestamp
toISOString(ms) ==
  [day |-> ms \div 86400000, hour |-> (ms \div 3600000) % 24,
   minute |-> (ms \div 60000) % 60, second |-> (ms \div 1000) % 60,
   milli |-> ms % 1000]

\* main.ts:29-30: construction only captures the options
ZebraCrossing(options) ==
  [windowMs |-> options.windowMs, maxRequests |-> options.maxRequests]

\* variant: the window already ends for a call at expiresAt
WindowEndsEarly(rec, now) ==
  IF rec # Null
    THEN IF now >= rec.expiresAt
           THEN [hits |-> 0, expiresAt |-> now + windowMs]
           ELSE [hits |-> rec.hits, expiresAt |-> rec.expiresAt]
    ELSE [hits |-> 0, expiresAt |-> now + windowMs]

\* variant: an expired window gets a new end but keeps its count
WindowKeepsHits(rec, now) ==
  IF rec # Null
    THEN IF now > rec.expiresAt
           THEN [hits |-> rec.hits, expiresAt |-> now + windowMs]
           ELSE [hits |-> rec.hits, expiresAt |-> rec.expiresAt]
    ELSE [hits |-> 0, expiresAt |-> now + windowMs]

\* main.ts:49-61: the window the request counts in, before the increment
\* variant: a new window ends at windowMs, the time of the call is not added
WindowNotAnchored(rec, now) ==
  IF rec # Null
    THEN IF now > rec.expiresAt
           THEN [hits |-> 0, expiresAt |-> windowMs]
           ELSE [hits |-> rec.hits, expiresAt |-> rec.expiresAt]
    ELSE [hits |-> 0, expiresAt |-> windowMs]

Window(rec, now) ==
  IF rec # Null
    THEN IF Gt(now, Field(rec, "expiresAt"))
           THEN [hits |-> 0, expiresAt |-> now + windowMs]
           ELSE [hits |-> Field(rec, "hits"), expiresAt |-> Field(rec, "expiresAt")]
    ELSE [hits |-> 0, expiresAt |-> now + windowMs]

\* main.ts:64
Increment(h) == IF h = NaN THEN NaN ELSE h + 1

\* variants: the comparison off by one, either way
BlockedAtLimit(h) == h >= maxRequests
BlockedOneLate(h) == h > maxRequests + 1

\* main.ts:67
Blocked(h) == Gt(h, maxRequests)

NoHeaders == [limit |-> Undefined, remaining |-> Undefined, reset |-> Undefined]

\* variant: the reset time of a rejection is that of a window starting now
BlockedHeadersFromNow(e, now) ==
  [limit |-> toString(maxRequests), remaining |-> << 0 >>,
   reset |-> toISOString(now + windowMs)]

\* main.ts:69-71
BlockedHeaders(e, now) ==
  [limit |-> toString(maxRequests), remaining |-> << 0 >>, reset |-> toISOString(e)]

\* main.ts:79-81
AdmittedHeaders(h, e) ==
  [limit |-> toString(maxRequests), remaining |-> toString(Minus(maxRequests, h)),
   reset |-> toISOString(e)]

\* main.ts:79-80, when main.ts:81 throws
AdmittedHeadersNoReset(h) ==
  [limit |-> toString(maxRequests), remaining |-> toString(Minus(maxRequests, h)),
   reset |-> Undefined]

(* ---- initial states ---- *)

\* n requests, none of which has arrived
InitCalls(n) ==
  /\ clock = 0
  /\ pc = [r \in 1..n |-> "idle"]
  /\ clientIp = [r \in 1..n |-> Undefined]
  /\ record = [r \in 1..n |-> Null]
  /\ currentTime = [r \in 1..n |-> 0]
  /\ hits = [r \in 1..n |-> 0]
  /\ expiresAt = [r \in 1..n |-> 0]
  /\ status = [r \in 1..n |-> 0]
  /\ headers = [r \in 1..n |-> NoHeaders]
  /\ trace = [r \in 1..n |-> << >>]
  /\ err = [r \in 1..n |-> ""]
  /\ soloRecord = [r \in 1..n |-> Null]
  /\ expireIn = [k \in KvKeys |-> << >>]
  /\ overlapped = {}

\* the store is empty
InitRequests(n) ==
  /\ kv = [k \in KvKeys |-> Null]
  /\ soloKv = [c \in ClientIps |-> Null]
  /\ InitCalls(n)

Configured(w, m) ==
  LET mw == ZebraCrossing([windowMs |-> w, maxRequests |-> m])
  IN  windowMs = mw.windowMs /\ maxRequests = mw.maxRequests

Init ==
  /\ \E w \in 1..MaxWindow, m \in 1..MaxLimit : Configured(w, m)
  /\ InitRequests(NReq)

InitLate ==
  /\ \E w \in 1..MaxWindow, m \in 1..MaxLimit : Configured(w, m)
  /\ InitRequests(NSeq)

InitBurst ==
  /\ \E w \in 1..MaxWindow, m \in 1..MaxLimit : Configured(w, m)
  /\ InitRequests(NBurst)

\* any options, as the constructor accepts them
InitCfg ==
  /\ \E w \in 0..MaxWindow, m \in 0..MaxLimit : Configured(w, m)
  /\ InitRequests(NReq)

\* stored values that are not of the shape {hits: number, expiresAt: number}
MalformedValues ==
  {[expiresAt |-> e] : e \in 0..MaxTime + MaxWindow}
    \cup {[hits |-> h] : h \in 1..MaxLimit}
    \cup {[corrupt |-> TRUE]}

\* the store holds values written by others, some of them malformed
InitMalformed ==
  /\ \E w \in 1..MaxWindow, m \in 1..MaxLimit : Configured(w, m)
  /\ kv \in [KvKeys -> {Null} \cup MalformedValues]
  /\ soloKv = [c \in ClientIps |-> kv[Key(c)]]
  /\ InitCalls(NReq)

(* ---- actions ---- *)

InFlight(r) == pc[r] \notin {"idle", "done", "error"}

\* store operations that failed so far
Failures == Cardinality({q \in Reqs : pc[q] = "error"})

\* main.ts:76: kv.set is called with the key and the value only, so the
\* entry gets no expireIn (<< >>: none, << ms >>: the entry expires in ms)
KvSetOptions(now, e) == << >>

\* the store applies a write / a read sees the store's value
KvSetValue(store, k, v) == [store EXCEPT ![k] = v]
KvGetValue(store, k) == store[k]

\* A request arrives, the handler starts and Deno.openKv() resolves:
\* main.ts:32-45 up to the await of kv.get, for any header values and peer
\* address of the request
OpenKv(r) ==
  /\ pc[r] = "idle"
  /\ \A q \in Reqs : q < r => pc[q] # "idle"
  /\ Cardinality({q \in Reqs : InFlight(q)}) < MaxInFlight
  /\ \E x \in HeaderVals, f \in HeaderVals, a \in RemoteVals :
       clientIp' = [clientIp EXCEPT ![r] = ClientIpOf(x, f, a)]
  /\ LET others == {q \in Reqs : InFlight(q) /\ clientIp[q] = clientIp'[r]}
     IN  overlapped' = IF others = {} THEN overlapped
                                      ELSE overlapped \cup others \cup {r}
  /\ pc' = [pc EXCEPT ![r] = "get"]
  /\ trace' = [trace EXCEPT ![r] = Append(@, "openKv")]
  /\ UNCHANGED <<config, clock, kv, expireIn, record, currentTime, hits, expiresAt,
                 response, err, solo>>

\* A request arrives and Deno.openKv() rejects: the handler's promise rejects
OpenKvFails(r) ==
  /\ Failures < MaxFailures
  /\ pc[r] = "idle"
  /\ \A q \in Reqs : q < r => pc[q] # "idle"
  /\ Cardinality({q \in Reqs : InFlight(q)}) < MaxInFlight
  /\ pc' = [pc EXCEPT ![r] = "error"]
  /\ err' = [err EXCEPT ![r] = "openKv"]
  /\ trace' = [trace EXCEPT ![r] = Append(@, "openKv")]
  /\ UNCHANGED <<config, overlapped, clock, kv, expireIn, locals, response, solo>>

\* kv.get resolves with the entry of the key: main.ts:45
KvGet(r) ==
  /\ pc[r] = "get"
  /\ record' = [record EXCEPT ![r] = KvGetValue(kv, Key(clientIp[r]))]
  /\ soloRecord' = [soloRecord EXCEPT ![r] = soloKv[clientIp[r]]]
  /\ pc' = [pc EXCEPT ![r] = "got"]
  /\ trace' = [trace EXCEPT ![r] = Append(@, "get")]
  /\ UNCHANGED <<config, overlapped, clock, kv, expireIn, clientIp, currentTime, hits, expiresAt,
                 response, err, soloKv>>

\* kv.get rejects: nothing catches it, the handler's promise rejects
KvGetFails(r) ==
  /\ Failures < MaxFailures
  /\ pc[r] = "get"
  /\ pc' = [pc EXCEPT ![r] = "error"]
  /\ err' = [err EXCEPT ![r] = "get"]
  /\ trace' = [trace EXCEPT ![r] = Append(@, "get")]
  /\ UNCHANGED <<config, overlapped, clock, kv, expireIn, locals, response, solo>>

\* the time the handler reads at main.ts:46, and the clock after the read
ReadClock(now) ==
  /\ now \in clock..MaxTime
  /\ clock' = now

\* variant: the incremented count is persisted for a rejected request too
AfterGetAlwaysPersists(r) ==
  /\ pc[r] = "got"
  /\ \E now \in 0..MaxTime :
       LET w == Window(record[r], now)
           h == Increment(w.hits)
       IN  /\ ReadClock(now)
           /\ currentTime' = [currentTime EXCEPT ![r] = now]
           /\ hits' = [hits EXCEPT ![r] = h]
           /\ expiresAt' = [expiresAt EXCEPT ![r] = w.expiresAt]
           /\ IF Blocked(h)
                THEN /\ kv' = KvSetValue(kv, Key(clientIp[r]),
                                         [hits |-> h, expiresAt |-> w.expiresAt])
                     /\ headers' = [headers EXCEPT ![r] = BlockedHeaders(w.expiresAt, now)]
                     /\ status' = [status EXCEPT ![r] = 429]
                     /\ trace' = [trace EXCEPT ![r] = @ \o << "headers", "text" >>]
                     /\ pc' = [pc EXCEPT ![r] = "done"]
                ELSE /\ pc' = [pc EXCEPT ![r] = "set"]
                     /\ UNCHANGED <<kv, response, trace>>
  /\ UNCHANGED <<config, overlapped, expireIn, clientIp, record, err, solo>>

\* the handler resumes after kv.get: main.ts:46-76, up to the return of the
\* 429 response or the await of kv.set
AfterGet(r) ==
  /\ pc[r] = "got"
  /\ \E now \in 0..MaxTime :
       LET w == Window(record[r], now)
           h == Increment(w.hits)
       IN  /\ ReadClock(now)
           /\ currentTime' = [currentTime EXCEPT ![r] = now]
           /\ hits' = [hits EXCEPT ![r] = h]
           /\ expiresAt' = [expiresAt EXCEPT ![r] = w.expiresAt]
           /\ IF Blocked(h) /\ ~ValidDate(w.expiresAt)
                THEN \* main.ts:68 throws
                     /\ pc' = [pc EXCEPT ![r] = "error"]
                     /\ err' = [err EXCEPT ![r] = "toISOString"]
                     /\ UNCHANGED <<response, trace>>
                ELSE IF Blocked(h)
                THEN /\ headers' = [headers EXCEPT ![r] = BlockedHeaders(w.expiresAt, now)]
                     /\ status' = [status EXCEPT ![r] = 429]
                     /\ trace' = [trace EXCEPT ![r] = @ \o << "headers", "text" >>]
                     /\ pc' = [pc EXCEPT ![r] = "done"]
                     /\ UNCHANGED err
                ELSE /\ pc' = [pc EXCEPT ![r] = "set"]
                     /\ UNCHANGED <<response, trace, err>>
  /\ UNCHANGED <<config, overlapped, kv, expireIn, clientIp, record, solo>>

\* variant: the downstream handler runs before the headers are set
KvSetNextFirst(r) ==
  /\ pc[r] = "set"
  /\ kv' = KvSetValue(kv, Key(clientIp[r]),
                      [hits |-> hits[r], expiresAt |-> expiresAt[r]])
  /\ expireIn' = [expireIn EXCEPT ![Key(clientIp[r])] =
                    KvSetOptions(currentTime[r], expiresAt[r])]
  /\ LET w == Window(soloRecord[r], currentTime[r])
     IN  soloKv' = [soloKv EXCEPT ![clientIp[r]] =
                      [hits |-> Increment(w.hits), expiresAt |-> w.expiresAt]]
  /\ headers' = [headers EXCEPT ![r] = AdmittedHeaders(hits[r], expiresAt[r])]
  /\ trace' = [trace EXCEPT ![r] = @ \o << "set", "next", "headers" >>]
  /\ pc' = [pc EXCEPT ![r] = "done"]
  /\ UNCHANGED <<config, overlapped, clock, locals, status, err, soloRecord>>

\* kv.set applies the write and resolves, and the handler runs to its end:
\* main.ts:76-85, the headers are set and next() runs the downstream handler,
\* unless toISOString throws at main.ts:81
KvSet(r) ==
  /\ pc[r] = "set"
  /\ kv' = KvSetValue(kv, Key(clientIp[r]),
                      [hits |-> hits[r], expiresAt |-> expiresAt[r]])
  /\ expireIn' = [expireIn EXCEPT ![Key(clientIp[r])] =
                    KvSetOptions(currentTime[r], expiresAt[r])]
  /\ LET w == Window(soloRecord[r], currentTime[r])
     IN  soloKv' = [soloKv EXCEPT ![clientIp[r]] =
                      [hits |-> Increment(w.hits), expiresAt |-> w.expiresAt]]
  /\ IF ValidDate(expiresAt[r])
       THEN /\ headers' = [headers EXCEPT ![r] = AdmittedHeaders(hits[r], expiresAt[r])]
            /\ trace' = [trace EXCEPT ![r] = @ \o << "set", "headers", "next" >>]
            /\ pc' = [pc EXCEPT ![r] = "done"]
            /\ UNCHANGED err
       ELSE /\ headers' = [headers EXCEPT ![r] = AdmittedHeadersNoReset(hits[r])]
            /\ trace' = [trace EXCEPT ![r] = Append(@, "set")]
            /\ pc' = [pc EXCEPT ![r] = "error"]
            /\ err' = [err EXCEPT ![r] = "toISOString"]
  /\ UNCHANGED <<config, overlapped, clock, locals, status, soloRecord>>

\* variant: a failed write is swallowed and the request goes on
KvSetFailsSwallowed(r) ==
  /\ Failures < MaxFailures
  /\ pc[r] = "set"
  /\ pc' = [pc EXCEPT ![r] = "done"]
  /\ err' = [err EXCEPT ![r] = "set"]
  /\ headers' = [headers EXCEPT ![r] = AdmittedHeaders(hits[r], expiresAt[r])]
  /\ trace' = [trace EXCEPT ![r] = @ \o << "set", "headers", "next" >>]
  /\ UNCHANGED <<config, overlapped, clock, kv, expireIn, locals, status, solo>>

\* kv.set rejects: the entry is not written, the handler's promise rejects
KvSetFails(r) ==
  /\ Failures < MaxFailures
  /\ pc[r] = "set"
  /\ pc' = [pc EXCEPT ![r] = "error"]
  /\ err' = [err EXCEPT ![r] = "set"]
  /\ trace' = [trace EXCEPT ![r] = Append(@, "set")]
  /\ UNCHANGED <<config, overlapped, clock, kv, expireIn, locals, response, solo>>

\* no request is between its arrival and its response
Alone == \A q \in Reqs : ~InFlight(q)

\* the steps of a request whose store operations succeed
Step(r) == KvGet(r) \/ AfterGet(r) \/ KvSet(r)

\* the steps in which a store operation fails
Fails(r) == KvGetFails(r) \/ KvSetFails(r)

\* the first request is of client "a": the handler treats all clients alike
\* and their keys differ, so the behaviours that start with another client
\* are these with the clients renamed
OpenKvFrom(r) == OpenKv(r) /\ clientIp'[1] = "a"

\* requests overlap freely, the store works
Next == \E r \in 1..NReq : OpenKvFrom(r) \/ Step(r)

\* calls are executed one after another, store operations may fail
NextSeq ==
  \E r \in 1..NReq :
    \/ Alone /\ OpenKv(r)
    \/ Alone /\ OpenKvFails(r)
    \/ Step(r)
    \/ Fails(r)

\* calls are executed one after another, the store works
NextAlone == \E r \in 1..NReq : (Alone /\ OpenKv(r)) \/ Step(r)

\* the same, for the calls of a behaviour that follows a client past a reset
NextLate == \E r \in 1..NSeq : (Alone /\ OpenKv(r)) \/ Step(r)

\* a request of client "a" arrives
OpenKvBurst(r) == OpenKv(r) /\ clientIp'[r] = "a"

\* the handler resumes after kv.get and reads the same time as the last read
AfterGetBurst(r) == AfterGet(r) /\ clock' = clock

\* a burst: overlapping requests of one client at one instant of the clock,
\* the store works
NextBurst ==
  \E r \in 1..NBurst : OpenKvBurst(r) \/ KvGet(r) \/ AfterGetBurst(r) \/ KvSet(r)

Spec == Init /\ [][Next]_vars
SpecSeq == Init /\ [][NextSeq]_vars
SpecCfg == InitCfg /\ [][Next]_vars
SpecBurst == InitBurst /\ [][NextBurst]_vars
SpecLate == InitLate /\ [][NextLate]_vars
SpecMalformed == InitMalformed /\ [][NextAlone]_vars

TypeOK ==
  /\ clock \in 0..MaxTime
  /\ \A r \in Reqs : pc[r] \in {"idle", "get", "got", "set", "done", "error"}

(* ---- what a request reported ---- *)

Count(seq, e) == Cardinality({i \in DOMAIN seq : seq[i] = e})

\* the handler returned a response: it reached a decision
Decided(r) == pc[r] = "done"
Rejected(r) == Decided(r) /\ status[r] = 429
Admitted(r) == Decided(r) /\ status[r] # 429

\* the request found no entry, or an entry whose window had ended
FoundAbsent(r) == record[r] = Null
FoundExpired(r) ==
  record[r] # Null /\ Gt(currentTime[r], Field(record[r], "expiresAt"))

\* a decided request that started a window of its client
Opens(o) == Decided(o) /\ (FoundAbsent(o) \/ FoundExpired(o))

\* the decided calls of the window that o started, o included
Calls(o) ==
  {q \in Reqs : /\ q >= o
                /\ Decided(q)
                /\ clientIp[q] = clientIp[o]
                /\ currentTime[q] <= currentTime[o] + windowMs}

\* the position of call q in the window that o started
Rank(q, o) == Cardinality({p \in Calls(o) : p <= q})

(* ---- C1 ---- *)

\* C1: when the calls of a client are made one after another, at most
\* maxRequests calls are admitted between the creation of a window record
\* and its expiresAt.
C1_LimitPerWindow ==
  \A o \in Reqs :
    Opens(o) /\ Admitted(o) =>
      Cardinality({q \in Reqs : /\ Admitted(q)
                                /\ clientIp[q] = clientIp[o]
                                /\ currentTime[q] >= currentTime[o]
                                /\ currentTime[q] <= expiresAt[o]}) <= maxRequests

\* a window with maxRequests admitted calls and one more call in it
C1_Witness ==
  \E o \in Reqs :
    /\ Opens(o) /\ Admitted(o)
    /\ Cardinality({q \in Calls(o) : Admitted(q)}) = maxRequests
    /\ \E q \in Calls(o) : Rejected(q)

(* ---- C2 ---- *)

\* C2: of the calls made one after another for one client inside one window,
\* the i-th is admitted and reports remaining = maxRequests - i, for every
\* i <= maxRequests.  (A call that ends in a store error reports nothing and
\* is not a call of the window.)
C2_FirstCallsAdmitted ==
  \A o \in Reqs :
    Opens(o) =>
      \A q \in Calls(o) :
        Rank(q, o) <= maxRequests =>
          /\ Admitted(q)
          /\ headers[q].remaining = toString(maxRequests - Rank(q, o))

\* a window started from no record in which maxRequests = 2 calls were
\* admitted, the last one reporting remaining 0
C2_Witness ==
  \E o \in Reqs :
    /\ Opens(o) /\ FoundAbsent(o)
    /\ maxRequests = 2
    /\ \E q \in Calls(o) :
         Rank(q, o) = maxRequests /\ Admitted(q) /\ headers[q].remaining = << 0 >>

(* ---- C3 ---- *)

\* C3: every call after the maxRequests-th of a window is rejected, with
\* remaining 0 and limit maxRequests.
C3_LaterCallsRejected ==
  \A o \in Reqs :
    Opens(o) =>
      \A q \in Calls(o) :
        Rank(q, o) > maxRequests =>
          /\ Rejected(q)
          /\ headers[q].remaining = << 0 >>
          /\ headers[q].limit = toString(maxRequests)

\* two rejected calls in one window
C3_Witness ==
  \E o \in Reqs :
    /\ Opens(o)
    /\ \E q \in Calls(o) : Rank(q, o) = maxRequests + 2 /\ Rejected(q)

(* ---- C4 ---- *)

\* C4: a call that finds the record of its key expired (now > expiresAt),
\* whatever its hits, is admitted; the record it persists has hits = 1 and
\* expiresAt = now + windowMs, and it reports remaining = maxRequests - 1.
C4_ExpiredRecordRollsOver ==
  \A r \in Reqs :
    FoundExpired(r) =>
      /\ pc[r] \in {"set", "done"} => ~Rejected(r)
      /\ Decided(r) /\ Alone /\ (\A q \in Reqs : q > r => pc[q] = "idle") =>
            kv[Key(clientIp[r])] =
              [hits |-> 1, expiresAt |-> currentTime[r] + windowMs]
      /\ pc[r] = "done" =>
            /\ Admitted(r)
            /\ Count(trace[r], "set") = 1
            /\ headers[r].remaining = toString(maxRequests - 1)
            /\ headers[r].reset = toISOString(currentTime[r] + windowMs)

\* a call admitted after a window that was full and had rejected a call
C4_Witness ==
  \E r \in Reqs :
    /\ FoundExpired(r) /\ Admitted(r)
    /\ record[r].hits = maxRequests
    /\ \E q \in Reqs : q < r /\ clientIp[q] = clientIp[r] /\ Rejected(q)

(* ---- C5 ---- *)

\* the decision a request would reach from the private store of its client
SoloDecision(r) ==
  LET w == Window(soloRecord[r], currentTime[r])
      h == Increment(w.hits)
  IN  [admitted |-> ~Blocked(h),
       headers |-> IF Blocked(h) THEN BlockedHeaders(w.expiresAt, currentTime[r])
                                 ELSE AdmittedHeaders(h, w.expiresAt)]

\* a step changes at most the entry of the key of the request that writes
C5_Frame ==
  \A k \in KvKeys :
    kv'[k] # kv[k] =>
      \E r \in Reqs : pc[r] = "set" /\ pc'[r] = "done" /\ k = Key(clientIp[r])

\* the entry of every client, the record every request read and the decision
\* every request reported are those of a store that holds that client alone
C5_Isolated ==
  /\ \A c \in ClientIps : kv[Key(c)] = soloKv[c]
  /\ \A r \in Reqs :
       /\ pc[r] \in {"got", "set", "done"} => record[r] = soloRecord[r]
       /\ Decided(r) =>
            /\ Admitted(r) = SoloDecision(r).admitted
            /\ headers[r] = SoloDecision(r).headers

\* C5: calls with different client keys never influence each other: a check
\* leaves the record of every other key unchanged, and the decisions of a
\* client are those it gets when the calls of the other clients are left out,
\* in every interleaving.
C5_KeysIndependent == []C5_Isolated /\ [][C5_Frame]_vars

\* a call of one client is about to write while a call of another client,
\* which already has a record, has read it and not yet decided
C5_Witness ==
  \E r, q \in Reqs :
    /\ clientIp[r] = "a" /\ pc[r] = "set"
    /\ clientIp[q] = Undefined /\ pc[q] = "got" /\ record[q] # Null

(* ---- C6 ---- *)

\* decided calls p < q of one client with no decided call of it in between
Consecutive(p, q) ==
  /\ p < q /\ Decided(p) /\ Decided(q) /\ clientIp[p] = clientIp[q]
  /\ ~\E m \in Reqs : p < m /\ m < q /\ Decided(m) /\ clientIp[m] = clientIp[p]

\* C6: for calls made one after another, every call inside one window,
\* admitted or rejected, returns the resetAt fixed by the call that opened
\* the window; resetAt differs between two consecutive calls of a client only
\* when the later one found the record absent or expired.
C6_ResetStable ==
  /\ \A o \in Reqs :
       Opens(o) =>
         \A q \in Calls(o) :
           headers[q].reset = toISOString(currentTime[o] + windowMs)
  /\ \A p, q \in Reqs :
       Consecutive(p, q) /\ headers[p].reset # headers[q].reset =>
         FoundAbsent(q) \/ FoundExpired(q)

\* a window with an admitted and a rejected call after the opening one,
\* opened later than time 0, and a later window with another resetAt
C6_Witness ==
  \E o, q \in Reqs :
    /\ Opens(o) /\ q \in Calls(o) /\ q > o /\ Rejected(q)
    /\ currentTime[q] > currentTime[o]
    /\ \E n \in Reqs : Consecutive(q, n) /\ headers[n].reset # headers[q].reset

(* ---- C7 ---- *)

\* every decided call read the store once; it wrote once if admitted and not
\* at all if rejected; no call that computed hits > maxRequests wrote
C7_ReadsAndWrites ==
  \A r \in Reqs :
    /\ Decided(r) => Count(trace[r], "get") = 1
    /\ Admitted(r) => Count(trace[r], "set") = 1
    /\ Rejected(r) => Count(trace[r], "set") = 0 /\ hits[r] > maxRequests
    /\ pc[r] \in {"set", "done"} /\ hits[r] > maxRequests =>
         Count(trace[r], "set") = 0 /\ Rejected(r)

\* the step in which a call is rejected leaves the store as it was, and the
\* store changes only in the write of a call with hits <= maxRequests
C7_RejectionKeepsStore ==
  /\ \A r \in Reqs : ~Rejected(r) /\ Rejected(r)' => kv' = kv
  /\ kv' # kv =>
       \E r \in Reqs : pc[r] = "set" /\ pc'[r] = "done" /\ hits[r] <= maxRequests

\* C7: a rejected call leaves the store unchanged: each check reads the store
\* once and writes it once if and only if the call is admitted.
C7_RejectedCallsDoNotWrite == []C7_ReadsAndWrites /\ [][C7_RejectionKeepsStore]_vars

\* a call was rejected on a full window and the record still holds
\* hits = maxRequests
C7_Witness ==
  \E r \in Reqs :
    /\ Rejected(r) /\ hits[r] = maxRequests + 1
    /\ kv[Key(clientIp[r])] = [hits |-> maxRequests, expiresAt |-> expiresAt[r]]

(* ---- C8 ---- *)

\* C8: a rejected call answers 429 with Limit = maxRequests, Remaining = 0
\* and Reset from expiresAt and never invokes the downstream handler; an
\* admitted call invokes it exactly once, after the record was written and
\* the headers set with Remaining = maxRequests - hits.
C8_ResponseProtocol ==
  \A r \in Reqs :
    /\ Rejected(r) =>
         /\ headers[r] = [limit |-> toString(maxRequests), remaining |-> << 0 >>,
                          reset |-> toISOString(expiresAt[r])]
         /\ trace[r] = << "openKv", "get", "headers", "text" >>
    /\ Admitted(r) =>
         /\ headers[r] = [limit |-> toString(maxRequests),
                          remaining |-> toString(maxRequests - hits[r]),
                          reset |-> toISOString(expiresAt[r])]
         /\ trace[r] = << "openKv", "get", "set", "headers", "next" >>
    /\ ~Decided(r) => Count(trace[r], "next") = 0 /\ status[r] = 0
    /\ status[r] \in {0, 429}

\* an admitted call with remaining 1 and a rejected call, overlapping
C8_Witness ==
  \E r, q \in Reqs :
    /\ Admitted(r) /\ headers[r].remaining = << 1 >>
    /\ Rejected(q) /\ status[q] = 429
    /\ Count(trace[q], "next") = 0 /\ Count(trace[r], "next") = 1

(* ---- C9 ---- *)

\* a call that ended in a store error reported nothing and did not go on
C9_ErrorsEndTheCall ==
  \A r \in Reqs :
    /\ err[r] # "" <=> pc[r] = "error"
    /\ pc[r] = "error" =>
         /\ status[r] = 0 /\ headers[r] = NoHeaders
         /\ Count(trace[r], "next") = 0
         /\ trace[r][Len(trace[r])] = err[r]
         /\ err[r] \in {"openKv", "get"} => Count(trace[r], "set") = 0
    /\ Count(trace[r], "openKv") <= 1
    /\ Count(trace[r], "get") <= 1
    /\ Count(trace[r], "set") <= 1

\* the step in which a call fails leaves the store as it was
C9_FailureKeepsStore ==
  \A r \in Reqs : pc[r] # "error" /\ pc'[r] = "error" => kv' = kv

\* C9: store failures propagate and are not retried: a failed read ends the
\* check with no write, no decision and no downstream call; a failed write
\* ends it with the record unchanged and no downstream call; every store
\* operation is attempted at most once per call.
C9_StoreErrorsPropagate == []C9_ErrorsEndTheCall /\ [][C9_FailureKeepsStore]_vars

\* a write failed on a key that has a record, which is still there
C9_Witness ==
  \E r \in Reqs :
    /\ pc[r] = "error" /\ err[r] = "set"
    /\ kv[Key(clientIp[r])] # Null
    /\ kv[Key(clientIp[r])] = record[r]

(* ---- C10 ---- *)

\* C10: with windowMs <= 0 or maxRequests <= 0 the construction fails, so no
\* request is ever processed under such options: no store is opened or
\* read, no decision is reached.
C10_InvalidOptionsProcessNothing ==
  windowMs <= 0 \/ maxRequests <= 0 =>
    \A r \in Reqs : Count(trace[r], "get") = 0 /\ ~Decided(r)

(* ---- C11 ---- *)

\* the value read is not of the shape {hits: number, expiresAt: number}
Malformed(rec) ==
  rec # Null /\ (Field(rec, "hits") = NaN \/ Field(rec, "expiresAt") = NaN)

\* C11: a call that reads a malformed stored value raises no error and
\* behaves as if the record were absent: it is admitted with hits 1,
\* expiresAt = now + windowMs and remaining = maxRequests - 1.
C11_MalformedTreatedAsAbsent ==
  \A r \in Reqs :
    Malformed(record[r]) =>
      /\ pc[r] # "error"
      /\ pc[r] \in {"set", "done"} =>
           hits[r] = 1 /\ expiresAt[r] = currentTime[r] + windowMs
      /\ Decided(r) =>
           Admitted(r) /\ headers[r].remaining = toString(maxRequests - 1)

(* ---- C13 ---- *)

\* the calls admitted for client c in the window that ends at e
AdmittedIn(c, e) ==
  {r \in Reqs : Admitted(r) /\ clientIp[r] = c /\ expiresAt[r] = e}

\* the ends of the windows in which calls were admitted
WindowEnds == {expiresAt[r] : r \in {q \in Reqs : Admitted(q)}}

\* C13 as stated: in every interleaving the calls admitted for one key
\* inside one window are at most maxRequests plus the number of calls for
\* that key that are in flight concurrently (never more than MaxInFlight).
C13_ExcessWithinInFlight ==
  \A c \in ClientIps, e \in WindowEnds :
    Cardinality(AdmittedIn(c, e)) <= maxRequests + MaxInFlight

\* the calls for the key of client c that were in flight together with
\* another call for that key
Overlapped(c) == {r \in overlapped : clientIp[r] = c}

\* C13, amended: in every interleaving the calls admitted for one key
\* inside one window are at most maxRequests plus the number of calls for
\* that key that overlapped another call for that key, however few of them
\* were in flight at any one time.
C13_ExcessWithinOverlap ==
  \A c \in ClientIps, e \in WindowEnds :
    Cardinality(AdmittedIn(c, e)) <= maxRequests + Cardinality(Overlapped(c))

\* the limit is exceeded by more than the calls that were in flight at once
C13_Witness ==
  \E c \in ClientIps, e \in WindowEnds :
    /\ Cardinality(AdmittedIn(c, e)) > maxRequests + MaxInFlight
    /\ \A r \in AdmittedIn(c, e) : r \in Overlapped(c)

(* ---- C14 ---- *)

\* o opened the current window of its client: no later call opened one
OpensLatest(o) ==
  /\ Opens(o)
  /\ \A q \in Reqs : q > o /\ clientIp[q] = clientIp[o] => ~Opens(q)

\* the hit count stored for the client of call o
StoredHits(o) == Field(kv[Key(clientIp[o])], "hits")

\* C14 as stated: after k calls for one key inside one window, made one
\* after another, the hit count of the window is k, also when
\* k > maxRequests.
C14_EveryCallCounts ==
  Alone =>
    \A o \in Reqs : OpensLatest(o) => StoredHits(o) = Cardinality(Calls(o))

\* C14, amended: only admitted calls are recorded: after k calls for one key
\* inside one window, made one after another, the stored hit count is
\* min(k, maxRequests); a rejected call computes maxRequests + 1 and writes
\* nothing.
C14_AdmittedCallsCount ==
  /\ Alone =>
       \A o \in Reqs :
         OpensLatest(o) =>
           StoredHits(o) = IF Cardinality(Calls(o)) <= maxRequests
                             THEN Cardinality(Calls(o)) ELSE maxRequests
  /\ \A r \in Reqs : Rejected(r) => hits[r] = maxRequests + 1

\* two calls of a window were rejected and the stored count is the limit
C14_Witness ==
  /\ Alone
  /\ \E o \in Reqs :
       /\ OpensLatest(o)
       /\ Cardinality(Calls(o)) >= maxRequests + 2
       /\ StoredHits(o) = maxRequests

(* ---- C15 ---- *)

\* the call has read the clock and computed its count (main.ts:46-64)
Counted(r) == pc[r] \in {"set", "done"} \/ (pc[r] = "error" /\ err[r] = "set")

\* C15: the window end is inclusive: a call whose time is at most the
\* stored expiresAt, in particular equal to it, keeps the stored hits and
\* expiresAt, and is rejected if the stored hits equal maxRequests; only a
\* call whose time is greater than expiresAt starts a new window.
C15_WindowEndInclusive ==
  \A r \in Reqs :
    Counted(r) /\ record[r] # Null =>
      IF currentTime[r] <= record[r].expiresAt
        THEN /\ hits[r] = record[r].hits + 1
             /\ expiresAt[r] = record[r].expiresAt
             /\ record[r].hits = maxRequests /\ Decided(r) => Rejected(r)
        ELSE /\ hits[r] = 1
             /\ expiresAt[r] = currentTime[r] + windowMs

\* a call made exactly at expiresAt of a full window was rejected
C15_Witness ==
  \E r \in Reqs :
    /\ Rejected(r) /\ record[r] # Null
    /\ currentTime[r] = record[r].expiresAt
    /\ record[r].hits = maxRequests

(* ---- C16 ---- *)

\* C16: every write of a window record carries a storage-level expiry equal
\* to max(0, expiresAt - now), so every record in the store has one and is
\* removed by the store after its window ends.
C16_WritesCarryExpiry ==
  \A r \in Reqs :
    Admitted(r) /\ kv[Key(clientIp[r])] = [hits |-> hits[r], expiresAt |-> expiresAt[r]] =>
      expireIn[Key(clientIp[r])] =
        << IF expiresAt[r] >= currentTime[r] THEN expiresAt[r] - currentTime[r] ELSE 0 >>

(* ---- C17 ---- *)

\* C17: in every reachable state, under every interleaving of overlapping
\* calls, every record in the store has 1 <= hits <= maxRequests.
C17_StoredHitsWithinLimit ==
  \A k \in KvKeys :
    kv[k] # Null => 1 <= kv[k].hits /\ kv[k].hits <= maxRequests

\* a call that overlapped another was rejected and the stored count is the
\* limit
C17_Witness ==
  \E r \in overlapped :
    /\ Rejected(r)
    /\ kv[Key(clientIp[r])] # Null
    /\ kv[Key(clientIp[r])].hits = maxRequests

(* ---- C19 ---- *)

\* C19 as stated: for each key the stored expiresAt never decreases, in
\* every interleaving of overlapping calls.
C19_ExpiresAtNeverDecreases ==
  [][\A k \in KvKeys :
       kv[k] # Null /\ kv'[k] # Null => kv'[k].expiresAt >= kv[k].expiresAt]_vars

\* call r writes, and the record it read is still the one in the store
WritesFresh(r) ==
  /\ pc[r] = "set" /\ pc'[r] = "done"
  /\ kv[Key(clientIp[r])] # Null
  /\ record[r] = kv[Key(clientIp[r])]

\* C19, amended: the write of a call that read the record it replaces never
\* decreases the stored expiresAt, and increases it when the call started a
\* new window.  The delayed write of a call that read before another
\* call's write is not covered: it can replace the record of a newer window
\* by that of an older one.
C19_FreshWritesKeepWindow ==
  [][\A r \in Reqs :
       WritesFresh(r) =>
         LET k == Key(clientIp[r])
         IN  /\ kv'[k].expiresAt >= kv[k].expiresAt
             /\ currentTime[r] > kv[k].expiresAt =>
                  kv'[k].expiresAt > kv[k].expiresAt]_vars

\* a call that overlapped another started a new window over the record it
\* read and wrote it
C19_Witness ==
  \E r \in overlapped :
    /\ Admitted(r) /\ FoundExpired(r)
    /\ kv[Key(clientIp[r])] = [hits |-> hits[r], expiresAt |-> expiresAt[r]]
    /\ expiresAt[r] > record[r].expiresAt

(* ---- C18 ---- *)

\* every decision reports a reset time between the time read by the call
\* and windowMs later
C18_ResetWithinWindow ==
  \A r \in Reqs :
    Decided(r) =>
      /\ headers[r].reset = toISOString(expiresAt[r])
      /\ currentTime[r] <= expiresAt[r]
      /\ expiresAt[r] <= currentTime[r] + windowMs

\* call q of the client of p was made after the reset time reported to p
AfterReset(p, q) ==
  /\ p < q /\ Decided(q) /\ clientIp[q] = clientIp[p]
  /\ currentTime[q] > expiresAt[p]

====
